---- MODULE Spec2Model ----
(***************************************************************************)
(* A model of the Telepen Numeric decoder of html5-qrcode                  *)
(* (src/src/telepen-decoder.ts) and of the decoder shim that calls it      *)
(* (src/unnamed/part_000).                                                 *)
(*                                                                         *)
(* Conventions.                                                            *)
(*  - Indices are 0-based as in the TypeScript source; a TLA+ sequence s   *)
(*    is read at source index i as s[i + 1].                               *)
(*  - A JavaScript string is a sequence of one-character strings.          *)
(*  - null is the record Null.                                             *)
(*  - A non-integer number is an exact fraction [num, den] (den > 0); a    *)
(*    grey level is an integer count of thousandths (GRAY_SCALE).          *)
(***************************************************************************)
EXTENDS Integers, Sequences, FiniteSets, TLC

VARIABLES
  pc,                 \* where the modelled call stands
  input,              \* how the input of the call was built (ghost)
  elements,           \* decodeFromElements: the classified elements
  startIdx,           \* decodeFromElements: where the start pattern was found
  idx,                \* decodeFromElements: the matching position
  glyphs,             \* decodeFromElements: glyphs matched so far
  foundStopChar,      \* decodeFromElements: the stop glyph was matched
  consecutiveMisses,  \* decodeFromElements: misses since the last match
  result,             \* DecodeResult | null of the modelled call
  grayscale,          \* decodeScanLine: the grey levels of the row
  threshold,          \* decodeScanLine: the bar / space threshold
  runs,               \* decodeScanLine: the run lengths of the row
  scanLines,          \* decodeTelepenFromCanvas: the rows to examine
  lineIdx,            \* decodeTelepenFromCanvas: position in scanLines
  examined,           \* the tryDecode calls made so far (history)
  returned,           \* what decodeTelepenFromCanvas returned
  attempts,           \* the tryDecodeWithTolerance calls made so far (history)
  telepenRequested,   \* Html5QrcodeShim: TELEPEN_NUMERIC is a requested format
  primaryDecoder,     \* Html5QrcodeShim: the class of the primary decoder
  secondaryDecoder,   \* Html5QrcodeShim: the class of the secondary, or Undefined
  verbose,            \* Html5QrcodeShim: performance is logged
  executions,         \* Html5QrcodeShim: executions (= executionResults.length)
  wasPrimaryDecoderUsedInLastDecode,  \* Html5QrcodeShim: the alternation state
  frames,             \* the canvases a call can be given, each with its Telepen text
  calls,              \* the shim calls made so far (history)
  pending,            \* the decoder promises not yet settled, by method
  trace               \* who was asked to decode, call by call (history)

matcherVars == <<elements, startIdx, idx, glyphs, foundStopChar, consecutiveMisses>>

rowVars == <<grayscale, threshold, runs>>

canvasVars == <<scanLines, lineIdx, examined, returned, attempts>>

shimFields ==
  <<telepenRequested, primaryDecoder, secondaryDecoder, verbose, executions,
    wasPrimaryDecoderUsedInLastDecode>>

shimVars == <<shimFields, frames, calls, pending, trace>>

vars == <<pc, input, matcherVars, result, rowVars, canvasVars, shimVars>>

Null == [null |-> TRUE]

\* undefined: the value of a field that was never assigned.
Undefined == "undefined"

\* The decoding methods of Html5QrcodeShim.
Methods == {"decodeAsync", "decodeRobustlyAsync"}

(***************************************************************************)
(* Pattern tables (lines 18-156).  A pattern is the source string with     *)
(* each character '1' / '3' written as the digit 1 / 3.                    *)
(***************************************************************************)
TeleTable ==
  <<
    <<3,1,3,1,3,1,3,1>>,                    \* 0
    <<1,1,3,1,3,1,3,1,1,1>>,                \* 1
    <<3,3,3,1,3,1,1,1>>,                    \* 2
    <<1,1,1,1,3,1,3,1,3,1>>,                \* 3
    <<3,1,1,1,3,1,3,1,1,1>>,                \* 4
    <<1,1,3,3,3,1,3,1>>,                    \* 5
    <<1,3,1,3,3,1,3,1>>,                    \* 6
    <<1,1,1,1,1,1,3,1,3,1,1,1>>,            \* 7
    <<3,1,3,3,3,1,1,1>>,                    \* 8
    <<1,1,3,1,1,1,3,1,3,1>>,                \* 9
    <<3,3,1,1,3,1,3,1>>,                    \* 10
    <<1,1,1,1,3,3,3,1,1,1>>,                \* 11
    <<3,1,1,1,1,1,3,1,3,1>>,                \* 12
    <<1,1,1,3,1,3,3,1,1,1>>,                \* 13
    <<1,3,1,1,1,3,3,1,1,1>>,                \* 14
    <<1,1,1,1,1,1,1,1,3,1,3,1>>,            \* 15
    <<3,1,3,1,1,1,3,1,1,1>>,                \* 16
    <<1,1,3,1,3,3,3,1>>,                    \* 17
    <<3,3,3,3,3,1>>,                        \* 18
    <<1,1,1,1,3,1,1,1,3,1,1,1>>,            \* 19
    <<3,1,1,1,3,3,3,1>>,                    \* 20
    <<1,1,3,3,1,1,3,1,1,1>>,                \* 21
    <<1,3,1,3,1,1,3,1,1,1>>,                \* 22
    <<1,1,1,1,1,1,3,3,3,1>>,                \* 23
    <<3,1,1,3,1,3,3,1>>,                    \* 24
    <<1,1,3,1,1,1,1,1,3,1,1,1>>,            \* 25
    <<3,3,1,1,1,1,3,1,1,1>>,                \* 26
    <<1,1,1,1,1,3,1,3,3,1>>,                \* 27
    <<3,1,1,1,1,1,1,1,3,1,1,1>>,            \* 28
    <<1,1,1,3,1,1,1,3,3,1>>,                \* 29
    <<1,3,1,1,1,1,1,3,3,1>>,                \* 30
    <<1,1,1,1,1,1,1,1,1,1,3,1,1,1>>,        \* 31
    <<3,1,3,1,3,3,1,1>>,                    \* 32
    <<1,1,3,1,3,1,1,1,3,1>>,                \* 33
    <<3,3,3,1,1,1,3,1>>,                    \* 34
    <<1,1,1,1,3,1,3,3,1,1>>,                \* 35
    <<3,1,1,1,3,1,1,1,3,1>>,                \* 36
    <<1,1,3,3,3,3,1,1>>,                    \* 37
    <<1,3,1,3,3,3,1,1>>,                    \* 38
    <<1,1,1,1,1,1,3,1,1,1,3,1>>,            \* 39
    <<3,1,3,3,1,1,3,1>>,                    \* 40
    <<1,1,3,1,1,1,3,3,1,1>>,                \* 41
    <<3,3,1,1,3,3,1,1>>,                    \* 42
    <<1,1,1,1,3,3,1,1,3,1>>,                \* 43
    <<3,1,1,1,1,1,3,3,1,1>>,                \* 44
    <<1,1,1,3,1,3,1,1,3,1>>,                \* 45
    <<1,3,1,1,1,3,1,1,3,1>>,                \* 46
    <<1,1,1,1,1,1,1,1,3,3,1,1>>,            \* 47
    <<3,1,3,1,1,1,1,1,3,1>>,                \* 48
    <<1,1,3,1,1,3,1,3,1,1>>,                \* 49
    <<3,3,1,3,1,3,1,1>>,                    \* 50
    <<1,1,1,1,3,1,1,1,1,1,3,1>>,            \* 51
    <<3,1,1,1,1,3,1,3,1,1>>,                \* 52
    <<1,1,3,3,1,1,1,1,3,1>>,                \* 53
    <<1,3,1,3,1,1,1,1,3,1>>,                \* 54
    <<1,1,1,1,1,1,1,3,1,3,1,1>>,            \* 55
    <<3,1,1,3,1,1,1,3,1,1>>,                \* 56
    <<1,1,3,1,1,1,1,1,1,1,3,1>>,            \* 57
    <<3,3,1,1,1,1,1,1,3,1>>,                \* 58
    <<1,1,1,1,1,3,1,1,1,3,1,1>>,            \* 59
    <<3,1,1,1,1,1,1,1,1,1,3,1>>,            \* 60
    <<1,1,1,3,1,1,1,1,1,3,1,1>>,            \* 61
    <<1,3,1,1,1,1,1,1,1,3,1,1>>,            \* 62
    <<1,1,1,1,1,1,1,1,1,1,1,1,3,1>>,        \* 63
    <<3,1,3,1,3,1,1,1,1,1>>,                \* 64
    <<1,1,3,1,3,1,3,3>>,                    \* 65
    <<3,3,3,1,3,3>>,                        \* 66
    <<1,1,1,1,3,1,3,1,1,1,1,1>>,            \* 67
    <<3,1,1,1,3,1,3,3>>,                    \* 68
    <<1,1,3,3,3,1,1,1,1,1>>,                \* 69
    <<1,3,1,3,3,1,1,1,1,1>>,                \* 70
    <<1,1,1,1,1,1,3,1,3,3>>,                \* 71
    <<3,1,3,3,3,3>>,                        \* 72
    <<1,1,3,1,1,1,3,1,1,1,1,1>>,            \* 73
    <<3,3,1,1,3,1,1,1,1,1>>,                \* 74
    <<1,1,1,1,3,3,3,3>>,                    \* 75
    <<3,1,1,1,1,1,3,1,1,1,1,1>>,            \* 76
    <<1,1,1,3,1,3,3,3>>,                    \* 77
    <<1,3,1,1,1,3,3,3>>,                    \* 78
    <<1,1,1,1,1,1,1,1,3,1,1,1,1,1>>,        \* 79
    <<3,1,3,1,1,1,3,3>>,                    \* 80
    <<1,1,3,1,3,3,1,1,1,1>>,                \* 81
    <<3,3,3,3,1,1,1,1>>,                    \* 82
    <<1,1,1,1,3,1,1,1,3,3>>,                \* 83
    <<3,1,1,1,3,3,1,1,1,1>>,                \* 84
    <<1,1,3,3,1,1,3,3>>,                    \* 85
    <<1,3,1,3,1,1,3,3>>,                    \* 86
    <<1,1,1,1,1,1,3,3,1,1,1,1>>,            \* 87
    <<3,1,1,3,1,3,1,1,1,1>>,                \* 88
    <<1,1,3,1,1,1,1,1,3,3>>,                \* 89
    <<3,3,1,1,1,1,3,3>>,                    \* 90
    <<1,1,1,1,1,3,1,3,1,1,1,1>>,            \* 91
    <<3,1,1,1,1,1,1,1,3,3>>,                \* 92
    <<1,1,1,3,1,1,1,3,1,1,1,1>>,            \* 93
    <<1,3,1,1,1,1,1,3,1,1,1,1>>,            \* 94
    <<1,1,1,1,1,1,1,1,1,1,3,3>>,            \* 95
    <<3,1,3,1,1,3,1,3>>,                    \* 96
    <<1,1,3,1,3,1,1,1,1,1,1,1>>,            \* 97
    <<3,3,3,1,1,1,1,1,1,1>>,                \* 98
    <<1,1,1,1,3,1,1,3,1,3>>,                \* 99
    <<3,1,1,1,3,1,1,1,1,1,1,1>>,            \* 100
    <<1,1,3,3,1,3,1,3>>,                    \* 101
    <<1,3,1,3,1,3,1,3>>,                    \* 102
    <<1,1,1,1,1,1,3,1,1,1,1,1,1,1>>,        \* 103
    <<3,1,3,3,1,1,1,1,1,1>>,                \* 104
    <<1,1,3,1,1,1,1,3,1,3>>,                \* 105
    <<3,3,1,1,1,3,1,3>>,                    \* 106
    <<1,1,1,1,3,3,1,1,1,1,1,1>>,            \* 107
    <<3,1,1,1,1,1,1,3,1,3>>,                \* 108
    <<1,1,1,3,1,3,1,1,1,1,1,1>>,            \* 109
    <<1,3,1,1,1,3,1,1,1,1,1,1>>,            \* 110
    <<1,1,1,1,1,1,1,1,1,3,1,3>>,            \* 111
    <<3,1,3,1,1,1,1,1,1,1,1,1>>,            \* 112
    <<1,1,3,1,1,3,1,1,1,3>>,                \* 113
    <<3,3,1,3,1,1,1,3>>,                    \* 114
    <<1,1,1,1,3,1,1,1,1,1,1,1,1,1>>,        \* 115
    <<3,1,1,1,1,3,1,1,1,3>>,                \* 116
    <<1,1,3,3,1,1,1,1,1,1,1,1>>,            \* 117
    <<1,3,1,3,1,1,1,1,1,1,1,1>>,            \* 118
    <<1,1,1,1,1,1,1,3,1,1,1,3>>,            \* 119
    <<3,1,1,3,1,1,1,1,1,3>>,                \* 120
    <<1,1,3,1,1,1,1,1,1,1,1,1,1,1>>,        \* 121
    <<3,3,1,1,1,1,1,1,1,1,1,1>>,            \* 122
    <<1,1,1,1,1,3,1,1,1,1,1,3>>,            \* 123
    <<3,1,1,1,1,1,1,1,1,1,1,1,1,1>>,        \* 124
    <<1,1,1,3,1,1,1,1,1,1,1,3>>,            \* 125
    <<1,3,1,1,1,1,1,1,1,1,1,3>>,            \* 126
    <<1,1,1,1,1,1,1,1,1,1,1,1,1,1,1,1>>    \* 127
  >>

TeleLens ==
  <<
    8, 10, 8, 10, 10, 8, 8, 12, 8, 10, 8, 10, 10, 10, 10, 12, 10, 8, 6, 12, 8, 10, 10, 10, 8, 12, 10,
    10, 12, 10, 10, 14, 8, 10, 8, 10, 10, 8, 8, 12, 8, 10, 8, 10, 10, 10, 10, 12, 10, 10, 8, 12, 10,
    10, 10, 12, 10, 12, 10, 12, 12, 12, 12, 14, 10, 8, 6, 12, 8, 10, 10, 10, 6, 12, 10, 8, 12, 8, 8,
    14, 8, 10, 8, 10, 10, 8, 8, 12, 10, 10, 8, 12, 10, 12, 12, 12, 8, 12, 10, 10, 12, 8, 8, 14, 10,
    10, 8, 12, 10, 12, 12, 12, 12, 10, 8, 14, 10, 12, 12, 12, 10, 14, 12, 12, 14, 12, 12, 16
  >>

START_CHAR == 95

STOP_CHAR == 122

\* TeleTable[ascii] and TeleLens[ascii] of the source (0-based).
TeleTableAt(ascii) == TeleTable[ascii + 1]

TeleLensTypoAt(ascii) == IF ascii = STOP_CHAR THEN 10 ELSE TeleLens[ascii + 1]

TeleLensAt(ascii) == TeleLens[ascii + 1]

\* pattern.charCodeAt(i): the UTF-16 code of the digit character.
CharCodeAt(pattern, i) == 48 + pattern[i + 1]

(***************************************************************************)
(* Helpers for JavaScript values.                                          *)
(***************************************************************************)
DigitChars == <<"0", "1", "2", "3", "4", "5", "6", "7", "8", "9">>

\* Number.prototype.toString() of a non-negative integer.
RECURSIVE NumberToString(_)
NumberToString(n) ==
  IF n < 10 THEN <<DigitChars[n + 1]>>
  ELSE NumberToString(n \div 10) \o <<DigitChars[(n % 10) + 1]>>

\* The integers a..b in order (a for-loop's index values).
Range(a, b) == [i \in 1..(b - a + 1) |-> a + i - 1]

Includes(seq, x) == \E i \in 1..Len(seq) : seq[i] = x

RECURSIVE SumSeq(_)
SumSeq(seq) == IF seq = <<>> THEN 0 ELSE seq[1] + SumSeq(Tail(seq))

Reverse(seq) == [i \in 1..Len(seq) |-> seq[Len(seq) + 1 - i]]

(***************************************************************************)
(* decodeGlyphsToDigits (lines 581-643).                                   *)
(***************************************************************************)
\* Lines 594-598: the checksum expected after the data glyphs.
ExpectedChecksumNoWrap(dataGlyphs) == 127 - (SumSeq(dataGlyphs) % 127)

ExpectedChecksum(dataGlyphs) == (127 - (SumSeq(dataGlyphs) % 127)) % 127

\* Lines 613-629: the characters one data glyph adds to the text.
GlyphTextSwapped(glyph) ==
  IF glyph >= 27 /\ glyph <= 126
    THEN LET pairValue == glyph - 27
             d1 == pairValue \div 10
             d2 == pairValue % 10
         IN  IF pairValue <= 99 THEN NumberToString(d2) \o NumberToString(d1)
             ELSE <<>>
  ELSE IF glyph >= 17 /\ glyph <= 26
    THEN NumberToString(glyph - 17)
  ELSE <<>>

GlyphText(glyph) ==
  IF glyph >= 27 /\ glyph <= 126
    THEN LET pairValue == glyph - 27
             d1 == pairValue \div 10
             d2 == pairValue % 10
         IN  IF pairValue <= 99 THEN NumberToString(d1) \o NumberToString(d2)
             ELSE <<>>
  ELSE IF glyph >= 17 /\ glyph <= 26
    THEN NumberToString(glyph - 17)
  ELSE <<>>

\* Lines 610-630: the loop that builds the digit string.
RECURSIVE DigitString(_)
DigitString(dataGlyphs) ==
  IF dataGlyphs = <<>> THEN <<>>
  ELSE GlyphText(dataGlyphs[1]) \o DigitString(Tail(dataGlyphs))

decodeGlyphsToDigits(glyphList, hasStopChar) ==
  IF Len(glyphList) < 2 THEN Null
  ELSE LET checksumGlyph == glyphList[Len(glyphList)]
           dataGlyphs == SubSeq(glyphList, 1, Len(glyphList) - 1)
           expectedChecksum == ExpectedChecksum(dataGlyphs)
           checksumValid == (checksumGlyph = expectedChecksum)
           text == DigitString(dataGlyphs)
       IN  IF ~checksumValid THEN Null
           ELSE IF Len(text) = 0 THEN Null
           ELSE [text |-> text, checksumValid |-> checksumValid,
                 hasStopChar |-> hasStopChar]

(***************************************************************************)
(* decodeFromElements (lines 456-528) and its helpers.                     *)
(***************************************************************************)
MAX_CONSECUTIVE_MISSES == 2

START_SEARCH_LIMIT == 20

MinOf(a, b) == IF a < b THEN a ELSE b

\* Lines 562-575.
matchPatternIgnoringLast(elems, start, pattern) ==
  IF start + Len(pattern) > Len(elems) THEN FALSE
  ELSE \A i \in 0..(Len(pattern) - 2) :
         CharCodeAt(pattern, i) - 48 = elems[start + i + 1]

matchPattern(elems, start, pattern) ==
  IF start + Len(pattern) > Len(elems) THEN FALSE
  ELSE \A i \in 0..(Len(pattern) - 1) :
         CharCodeAt(pattern, i) - 48 = elems[start + i + 1]

\* Lines 534-560.  The fourth loop tests order.includes(i) against the list
\* it is extending; the i it appends are distinct, so the test only ever
\* depends on the first three groups.
getGlyphSearchOrder ==
  LET first == <<STOP_CHAR>>
      second == first \o SelectSeq(Range(27, 126), LAMBDA i : i # STOP_CHAR)
      third == second \o Range(17, 26)
  IN  third \o SelectSeq(Range(0, 127), LAMBDA i : ~Includes(third, i))

\* Lines 492-511: the first code of a search order whose pattern fits and
\* matches at idx; -1 when there is none.  The source searches in the order
\* of getGlyphSearchOrder.
FirstMatchIn(order, elems, at) ==
  LET hits == {k \in 1..Len(order) :
                 /\ at + TeleLensAt(order[k]) <= Len(elems)
                 /\ matchPattern(elems, at, TeleTableAt(order[k]))}
  IN  IF hits = {} THEN -1
      ELSE order[CHOOSE k \in hits : \A j \in hits : k <= j]

FirstMatch(elems, at) == FirstMatchIn(getGlyphSearchOrder, elems, at)

\* Lines 461-469: the first position 0..min(length - startLen, 20) where the
\* start pattern matches; -1 when there is none.
FindStartIdx(elems) ==
  LET startPattern == TeleTableAt(START_CHAR)
      startLen == TeleLensAt(START_CHAR)
      found == {i \in 0..MinOf(Len(elems) - startLen, START_SEARCH_LIMIT) :
                  matchPattern(elems, i, startPattern)}
  IN  IF found = {} THEN -1
      ELSE CHOOSE i \in found : \A j \in found : i <= j

\* Line 485: the loop condition.
LoopCondition(elems, st) ==
  /\ ~st.foundStopChar
  /\ st.idx < Len(elems)
  /\ st.consecutiveMisses < MAX_CONSECUTIVE_MISSES

\* Lines 486-518: one iteration of the matching loop on the loop state st.
MatchIterationKeepMisses(elems, st) ==
  LET ascii == FirstMatch(elems, st.idx)
  IN  IF ascii = STOP_CHAR
        THEN [st EXCEPT !.foundStopChar = TRUE]
      ELSE IF ascii >= 0
        THEN [st EXCEPT !.glyphs = Append(st.glyphs, ascii),
                        !.idx = st.idx + TeleLensAt(ascii)]
      ELSE [st EXCEPT !.consecutiveMisses = st.consecutiveMisses + 1,
                      !.idx = st.idx + 1]

\* The iteration of lines 486-518 with the idx++ of line 517 left out: a
\* miss leaves the position where it is.
MatchIterationStay(elems, st) ==
  LET ascii == FirstMatch(elems, st.idx)
  IN  IF ascii = STOP_CHAR
        THEN [st EXCEPT !.foundStopChar = TRUE]
      ELSE IF ascii >= 0
        THEN [st EXCEPT !.glyphs = Append(st.glyphs, ascii),
                        !.idx = st.idx + TeleLensAt(ascii),
                        !.consecutiveMisses = 0]
      ELSE [st EXCEPT !.consecutiveMisses = st.consecutiveMisses + 1]

MatchIteration(elems, st) ==
  LET ascii == FirstMatch(elems, st.idx)
  IN  IF ascii = STOP_CHAR
        THEN [st EXCEPT !.foundStopChar = TRUE]
      ELSE IF ascii >= 0
        THEN [st EXCEPT !.glyphs = Append(st.glyphs, ascii),
                        !.idx = st.idx + TeleLensAt(ascii),
                        !.consecutiveMisses = 0]
      ELSE [st EXCEPT !.consecutiveMisses = st.consecutiveMisses + 1,
                      !.idx = st.idx + 1]

\* Lines 479-482: the loop state after the start pattern at position start.
LoopStart(start) ==
  [glyphs |-> <<>>, idx |-> start + TeleLensAt(START_CHAR),
   foundStopChar |-> FALSE, consecutiveMisses |-> 0]

RECURSIVE MatchLoop(_, _)
MatchLoop(elems, st) ==
  IF LoopCondition(elems, st) THEN MatchLoop(elems, MatchIteration(elems, st))
  ELSE st

\* Lines 521-527: what is returned once the loop has ended in state st.
AfterLoop(st) ==
  IF Len(st.glyphs) < 2 THEN Null
  ELSE decodeGlyphsToDigits(st.glyphs, st.foundStopChar)

decodeFromElements(elems) ==
  LET start == FindStartIdx(elems)
  IN  IF start < 0 THEN Null
      ELSE AfterLoop(MatchLoop(elems, LoopStart(start)))

(***************************************************************************)
(* Numbers.  The source computes with IEEE-754 doubles; the model computes *)
(* the same values exactly: a grey level as a count of thousandths, a mean *)
(* as a fraction, a product too wide for a machine integer as a list of    *)
(* base-100 digits (least significant first).                              *)
(*                                                                         *)
(* Loops.  A for loop over many pixels or bins is an operator ...Range(lo, *)
(* hi, st): the state after the iterations lo, ..., hi applied in this     *)
(* order to st.  The range is halved, and the first half is compared to    *)
(* itself to have it evaluated before the second, so that the depth of     *)
(* evaluation stays logarithmic in the number of iterations.               *)
(***************************************************************************)
\* The weights of line 231 have three decimals.
GRAY_SCALE == 1000

Abs(a) == IF a < 0 THEN 0 - a ELSE a

MaxOf(a, b) == IF a > b THEN a ELSE b

RECURSIVE BigTimes(_, _, _)
BigTimes(digits, k, carry) ==
  IF digits = <<>>
  THEN IF carry = 0 THEN <<>>
       ELSE <<carry % 100>> \o BigTimes(<<>>, k, carry \div 100)
  ELSE LET v == digits[1] * k + carry
       IN  <<v % 100>> \o BigTimes(Tail(digits), k, v \div 100)

\* a * b * c for naturals a, b, c.
BigProduct(a, b, c) == BigTimes(BigTimes(BigTimes(<<1>>, a, 0), b, 0), c, 0)

BigDigit(digits, i) == IF i <= Len(digits) THEN digits[i] ELSE 0

BigLess(x, y) ==
  \E i \in 1..MaxOf(Len(x), Len(y)) :
    /\ BigDigit(x, i) < BigDigit(y, i)
    /\ \A j \in (i + 1)..MaxOf(Len(x), Len(y)) : BigDigit(x, j) = BigDigit(y, j)

(***************************************************************************)
(* calculateOtsuThreshold (lines 257-298).  The between-class variance     *)
(* wB * wF * (mB - mF)^2 of line 284 equals a^2 / (wB * wF) with           *)
(* a = sumB * wF - (sum - sumB) * wB; it is kept as the pair [a, d] of     *)
(* |a| and d = wB * wF, and the 0 of line 271 as [a |-> 0, d |-> 1].       *)
(***************************************************************************)
\* Line 260: the histogram bin of a grey level.
HistogramBin(v) == MinOf(255, MaxOf(0, v \div GRAY_SCALE))

\* Lines 259-261, for the pixels lo to hi.
RECURSIVE HistogramRange(_, _, _, _)
HistogramRange(gray, lo, hi, histogram) ==
  IF lo > hi THEN histogram
  ELSE IF lo = hi
       THEN [histogram EXCEPT ![HistogramBin(gray[lo])] = @ + 1]
  ELSE LET mid == (lo + hi) \div 2
           first == HistogramRange(gray, lo, mid, histogram)
       IN  IF first = first THEN HistogramRange(gray, mid + 1, hi, first)
           ELSE histogram

\* Lines 258-261.
Histogram(gray) == HistogramRange(gray, 1, Len(gray), [i \in 0..255 |-> 0])

\* Lines 265-267, for the bins lo to hi.
RECURSIVE HistogramSumRange(_, _, _, _)
HistogramSumRange(histogram, lo, hi, sum) ==
  IF lo > hi THEN sum
  ELSE IF lo = hi THEN sum + lo * histogram[lo]
  ELSE LET mid == (lo + hi) \div 2
           first == HistogramSumRange(histogram, lo, mid, sum)
       IN  IF first = first THEN HistogramSumRange(histogram, mid + 1, hi, first)
           ELSE sum

\* Lines 264-267.
HistogramSum(histogram) == HistogramSumRange(histogram, 0, 255, 0)

\* Line 286: variance > maxVariance.
VarianceGreater(v, w) ==
  BigLess(BigProduct(w.a, w.a, v.d), BigProduct(v.a, v.a, w.d))

\* One iteration of the loop of lines 274-290; stopped records the break of
\* line 279.  At an empty bin that follows a pixel and precedes another, wB,
\* wF and sumB are those of the iteration before, so is the variance, which
\* line 286 has compared already: the iteration changes nothing.
OtsuIteration(histogram, total, sum, i, st) ==
  IF st.stopped THEN st
  ELSE IF histogram[i] = 0 /\ st.wB # 0 /\ st.wB # total THEN st
  ELSE LET wB == st.wB + histogram[i]
           wF == total - wB
           sumB == st.sumB + i * histogram[i]
           variance == [a |-> Abs(sumB * wF - (sum - sumB) * wB),
                        d |-> wB * wF]
       IN  IF wB = 0 THEN [st EXCEPT !.wB = wB]
           ELSE IF wF = 0 THEN [st EXCEPT !.wB = wB, !.stopped = TRUE]
           ELSE IF VarianceGreater(variance, st.maxVariance)
                THEN [st EXCEPT !.wB = wB, !.sumB = sumB,
                                !.maxVariance = variance, !.threshold = i]
                ELSE [st EXCEPT !.wB = wB, !.sumB = sumB]

\* Lines 274-290, for the bins lo to hi.
RECURSIVE OtsuRange(_, _, _, _, _, _)
OtsuRange(histogram, total, sum, lo, hi, st) ==
  IF lo > hi THEN st
  ELSE IF lo = hi THEN OtsuIteration(histogram, total, sum, lo, st)
  ELSE LET mid == (lo + hi) \div 2
           first == OtsuRange(histogram, total, sum, lo, mid, st)
       IN  IF first = first
           THEN OtsuRange(histogram, total, sum, mid + 1, hi, first)
           ELSE st

\* Lines 258-290: the threshold the loop ends with.
OtsuLoop(gray) ==
  LET histogram == Histogram(gray)
  IN  OtsuRange(histogram, Len(gray), HistogramSum(histogram), 0, 255,
                [sumB |-> 0, wB |-> 0, maxVariance |-> [a |-> 0, d |-> 1],
                 threshold |-> 128, stopped |-> FALSE]).threshold

\* The function without the substitution of lines 293-295.
calculateOtsuThresholdRaw(gray) == OtsuLoop(gray) * GRAY_SCALE

calculateOtsuThreshold(gray) ==
  LET loopThreshold == OtsuLoop(gray)
  IN  IF loopThreshold = 0 \/ loopThreshold = 255 THEN 128 * GRAY_SCALE
      ELSE loopThreshold * GRAY_SCALE

(***************************************************************************)
(* getRunLengths (lines 300-320).                                          *)
(***************************************************************************)
Run(length, isBar) == [length |-> length, isBar |-> isBar]

\* The iteration of lines 307-316 with line 314 left out: the length goes
\* on counting.
RunIterationNoReset(gray, limit, i, st) ==
  LET currentIsBar == gray[i + 1] < limit
  IN  IF currentIsBar = st.isBar THEN [st EXCEPT !.length = @ + 1]
      ELSE [runs |-> Append(st.runs, Run(st.length, st.isBar)),
            isBar |-> currentIsBar, length |-> st.length + 1]

\* One iteration of the loop of lines 307-316, at source index i.
RunIteration(gray, limit, i, st) ==
  LET currentIsBar == gray[i + 1] < limit
  IN  IF currentIsBar = st.isBar THEN [st EXCEPT !.length = @ + 1]
      ELSE [runs |-> Append(st.runs, Run(st.length, st.isBar)),
            isBar |-> currentIsBar, length |-> 1]

\* Lines 307-316, for the source indices lo to hi.
RECURSIVE RunRange(_, _, _, _, _)
RunRange(gray, limit, lo, hi, st) ==
  IF lo > hi THEN st
  ELSE IF lo = hi THEN RunIteration(gray, limit, lo, st)
  ELSE LET mid == (lo + hi) \div 2
           first == RunRange(gray, limit, lo, mid, st)
       IN  IF first = first THEN RunRange(gray, limit, mid + 1, hi, first)
           ELSE st

getRunLengths(gray, limit) ==
  IF Len(gray) = 0 THEN <<>>
  ELSE LET last == RunRange(gray, limit, 1, Len(gray) - 1,
                            [runs |-> <<>>, isBar |-> gray[1] < limit,
                             length |-> 1])
       IN  Append(last.runs, Run(last.length, last.isBar))

(***************************************************************************)
(* Math.floor(n * f) for the factors f of lines 202-210 and 396, given in  *)
(* hundredths.  The double nearest to p / 100 is p / 100 - r / (100 * 2^q) *)
(* with q and r as in DoubleOf, so the double product falls short of n * p *)
(* / 100 by n * r / (100 * 2^q) before rounding.  That changes the floor   *)
(* only where n * p / 100 is an integer N and r > 0: the product is then   *)
(* rounded to N if the shortfall is at most half the distance between N    *)
(* and the double below it (2^(k - 53) for 2^k < N <= 2^(k + 1)), and to   *)
(* the double below N otherwise.                                           *)
(***************************************************************************)
DoubleOf(p) ==
  CASE p = 50 -> [q |-> 53, r |-> 0]
    [] p = 45 -> [q |-> 54, r |-> -20]
    [] p = 55 -> [q |-> 53, r |-> -40]
    [] p = 40 -> [q |-> 54, r |-> -40]
    [] p = 60 -> [q |-> 53, r |-> 20]
    [] p = 35 -> [q |-> 54, r |-> 40]
    [] p = 65 -> [q |-> 53, r |-> -20]
    [] p = 30 -> [q |-> 54, r |-> 20]
    [] p = 70 -> [q |-> 53, r |-> 40]

\* The floor of the exact product n * p / 100.
ExactFloor(n, p) == (n * p) \div 100

\* Math.floor(n * (p / 100)) as the doubles of the source compute it.
FloorMul(n, p) ==
  LET d == DoubleOf(p)
      N == (n * p) \div 100
      k == CHOOSE e \in 0..30 :
             /\ N <= 2^(e + 1)
             /\ e > 0 => N > 2^e
      half == IF d.q = 53 THEN 100 * 2^k ELSE 200 * 2^k
  IN  IF (n * p) % 100 # 0 \/ d.r <= 0 \/ N = 0 THEN N
      ELSE IF n * d.r <= half THEN N
      ELSE N - 1

(***************************************************************************)
(* estimateNarrowWidth (lines 352-401).  A width is a fraction [num, den]. *)
(***************************************************************************)
Fraction(num, den) == [num |-> num, den |-> den]

\* |len - a| < |len - b| for an integer len and fractions a, b.
Nearer(len, a, b) ==
  Abs(len * a.den - a.num) * b.den < Abs(len * b.den - b.num) * a.den

\* Lines 354-357; source index i from startIdx to
\* Math.min(runs.length - 1, startIdx + 100) - 1.
SampleLengths(runList, first) ==
  [k \in 1..MaxOf(0, MinOf(Len(runList) - 1, first + 100) - first) |->
     runList[first + k].length]

\* Lines 363-364.
SmallestOf(lengths) ==
  CHOOSE v \in {lengths[k] : k \in 1..Len(lengths)} :
    \A k \in 1..Len(lengths) : v <= lengths[k]

LargestOf(lengths) ==
  CHOOSE v \in {lengths[k] : k \in 1..Len(lengths)} :
    \A k \in 1..Len(lengths) : v >= lengths[k]

\* Lines 371-382, for the lengths lo to hi.
RECURSIVE ClusterRange(_, _, _, _, _)
ClusterRange(lengths, centers, lo, hi, st) ==
  IF lo > hi THEN st
  ELSE IF lo = hi
       THEN IF Nearer(lengths[lo], centers.narrow, centers.wide)
            THEN [st EXCEPT !.narrowSum = @ + lengths[lo],
                            !.narrowCount = @ + 1]
            ELSE [st EXCEPT !.wideSum = @ + lengths[lo],
                            !.wideCount = @ + 1]
  ELSE LET mid == (lo + hi) \div 2
           first == ClusterRange(lengths, centers, lo, mid, st)
       IN  IF first = first
           THEN ClusterRange(lengths, centers, mid + 1, hi, first)
           ELSE st

\* One iteration of the loop of lines 367-386.
ClusterIteration(lengths, centers) ==
  LET sums == ClusterRange(lengths, centers, 1, Len(lengths),
                           [narrowSum |-> 0, narrowCount |-> 0,
                            wideSum |-> 0, wideCount |-> 0])
  IN  [narrow |-> IF sums.narrowCount > 0
                  THEN Fraction(sums.narrowSum, sums.narrowCount)
                  ELSE centers.narrow,
       wide |-> IF sums.wideCount > 0
                THEN Fraction(sums.wideSum, sums.wideCount)
                ELSE centers.wide]

CLUSTER_ITERATIONS == 10

\* Lines 367-386, from iteration iter on.
RECURSIVE ClusterLoop(_, _, _)
ClusterLoop(lengths, centers, iter) ==
  IF iter >= CLUSTER_ITERATIONS THEN centers
  ELSE LET next == ClusterIteration(lengths, centers)
       IN  IF next = next THEN ClusterLoop(lengths, next, iter + 1)
           ELSE centers

\* Line 395: the element at source index i of the sorted lengths.
SortedAt(lengths, i) ==
  CHOOSE v \in {lengths[k] : k \in 1..Len(lengths)} :
    /\ Cardinality({k \in 1..Len(lengths) : lengths[k] < v}) <= i
    /\ Cardinality({k \in 1..Len(lengths) : lengths[k] <= v}) > i

MIN_SAMPLES == 10

estimateNarrowWidth(runList, first) ==
  LET lengths == SampleLengths(runList, first)
      centers == ClusterLoop(lengths,
                             [narrow |-> Fraction(SmallestOf(lengths), 1),
                              wide |-> Fraction(LargestOf(lengths), 1)], 0)
      \* ratio = wide / narrow, against 2.5 = 5 / 2 and 3.5 = 7 / 2
      ratioNum == centers.wide.num * centers.narrow.den
      ratioDen == centers.wide.den * centers.narrow.num
      candidates == FloorMul(Len(lengths), 30)
  IN  IF Len(lengths) < MIN_SAMPLES THEN Fraction(0, 1)
      ELSE IF 2 * ratioNum < 5 * ratioDen \/ 2 * ratioNum > 7 * ratioDen
           THEN Fraction(SortedAt(lengths, candidates \div 2), 1)
      ELSE centers.narrow

(***************************************************************************)
(* tryDecodeWithTolerance (lines 403-454) and tryDecode (lines 322-350).   *)
(***************************************************************************)
\* Lines 436-444: narrow (1) or wide (3), the wide width being 3 times the
\* narrow one.
ClassifyRun(len, narrowWidth) ==
  IF Nearer(len, narrowWidth, Fraction(3 * narrowWidth.num, narrowWidth.den))
  THEN 1 ELSE 3

tryDecodeWithTolerance(runList, first, narrowWidth, tolerance) ==
  LET lastIdx == Len(runList) - 1
      \* line 418: run.length > narrowWidth * 2
      quietZone == /\ ~runList[lastIdx + 1].isBar
                   /\ runList[lastIdx + 1].length * narrowWidth.den
                        > 2 * narrowWidth.num
      addTrailingNarrow == /\ quietZone
                           /\ lastIdx > first
                           /\ runList[lastIdx].isBar
      endIdx == IF quietZone THEN lastIdx - 1 ELSE lastIdx
      classified == [k \in 1..MaxOf(0, endIdx - first + 1) |->
                       ClassifyRun(runList[first + k].length, narrowWidth)]
  IN  decodeFromElements(IF addTrailingNarrow THEN Append(classified, 1)
                         ELSE classified)

\* Line 340, in hundredths.
tolerances == <<30, 35, 40, 45, 50, 25>>

\* Lines 324-327: the source index of the first bar, or runs.length.
FirstBar(runList) ==
  IF \E k \in 1..Len(runList) : runList[k].isBar
  THEN (CHOOSE k \in 1..Len(runList) :
          /\ runList[k].isBar
          /\ \A j \in 1..(k - 1) : ~runList[j].isBar) - 1
  ELSE Len(runList)

\* The test of lines 216, 247, 249 and 344 without its stop flag.
AcceptedIgnoringStop(r) == r # Null /\ r.checksumValid

\* Lines 216, 247, 249 and 344.
Accepted(r) == r # Null /\ r.checksumValid /\ r.hasStopChar

\* Lines 342-349, from the tolerance at source index k on.
RECURSIVE TryTolerances(_, _, _, _)
TryTolerances(runList, first, narrowWidth, k) ==
  IF k >= Len(tolerances) THEN Null
  ELSE LET attempt == tryDecodeWithTolerance(runList, first, narrowWidth,
                                             tolerances[k + 1])
       IN  IF Accepted(attempt) THEN attempt
           ELSE TryTolerances(runList, first, narrowWidth, k + 1)

tryDecode(runList) ==
  LET first == FirstBar(runList)
      narrowWidth == estimateNarrowWidth(runList, first)
  IN  IF first >= Len(runList) THEN Null
      ELSE IF narrowWidth.num <= 0 THEN Null
      ELSE TryTolerances(runList, first, narrowWidth, 0)

\* The number of tryDecodeWithTolerance calls (line 343) the loop of lines
\* 342-349 makes from the tolerance at source index k on.
RECURSIVE CountTolerances(_, _, _, _)
CountTolerances(runList, first, narrowWidth, k) ==
  IF k >= Len(tolerances) THEN 0
  ELSE IF Accepted(tryDecodeWithTolerance(runList, first, narrowWidth,
                                          tolerances[k + 1]))
       THEN 1
  ELSE 1 + CountTolerances(runList, first, narrowWidth, k + 1)

\* The number of tryDecodeWithTolerance calls one call of tryDecode makes.
AttemptsMade(runList) ==
  LET first == FirstBar(runList)
      narrowWidth == estimateNarrowWidth(runList, first)
  IN  IF first >= Len(runList) THEN 0
      ELSE IF narrowWidth.num <= 0 THEN 0
      ELSE CountTolerances(runList, first, narrowWidth, 0)

(***************************************************************************)
(* decodeScanLine (lines 226-255) and decodeTelepenFromCanvas (lines       *)
(* 191-224).                                                               *)
(***************************************************************************)
\* Lines 228-233: data holds four bytes per pixel; grey in thousandths.
Grayscale(data, width) ==
  [x \in 1..width |->
     299 * data[4 * (x - 1) + 1] + 587 * data[4 * (x - 1) + 2]
       + 114 * data[4 * (x - 1) + 3]]

\* Line 241 with the limit of line 359 in its place.
MinRunsLowered == MIN_SAMPLES

\* Line 241.
MIN_RUNS == 20

\* The factors of lines 202-210 in ascending order.
ScanFractionsAscending == <<30, 35, 40, 45, 50, 55, 60, 65, 70>>

\* Lines 202-210, in hundredths.
ScanFractions == <<50, 45, 55, 40, 60, 35, 65, 30, 70>>

\* Lines 201-211.
ScanLines(height) ==
  [k \in 1..Len(ScanFractions) |-> FloorMul(height, ScanFractions[k])]

(***************************************************************************)
(* The Telepen Numeric encoding the decoder is written for (the header     *)
(* comment, lines 8-13): the inputs of the specifications are built with   *)
(* it.                                                                     *)
(***************************************************************************)
\* Line 9: the glyph of the digit pair (d1, d2).
PairGlyph(d1, d2) == (10 * d1 + d2) + 27

\* Line 13 with lines 594-598: the check glyph that follows the data glyphs.
CheckGlyph(dataGlyphs) == (127 - (SumSeq(dataGlyphs) % 127)) % 127

RECURSIVE Patterns(_)
Patterns(glyphList) ==
  IF glyphList = <<>> THEN <<>>
  ELSE TeleTableAt(glyphList[1]) \o Patterns(Tail(glyphList))

\* Lines 11-13: start glyph, data glyphs, check glyph, stop glyph.
SymbolGlyphs(dataGlyphs, check, withStart, withStop) ==
  (IF withStart THEN <<START_CHAR>> ELSE <<>>) \o dataGlyphs \o <<check>>
    \o (IF withStop THEN <<STOP_CHAR>> ELSE <<>>)

\* The element at source index k changed from 1 to 3 or from 3 to 1.
FlipElement(elems, k) == [elems EXCEPT ![k + 1] = 4 - elems[k + 1]]

\* The elements of an input: lead wide elements, then the symbol; flip = -1
\* leaves it as encoded, flip = k changes element k of the elements that
\* follow the start glyph.
InputElements(in) ==
  LET encoded == Patterns(SymbolGlyphs(in.data, in.check, in.start, in.stop))
      symbol == IF in.flip < 0 THEN encoded
                ELSE FlipElement(encoded, TeleLensAt(START_CHAR) + in.flip)
  IN  [i \in 1..in.lead |-> 3] \o symbol

(***************************************************************************)
(* Specification SpecDecode: decodeGlyphsToDigits applied to glyph lists   *)
(* (data glyphs from SampleGlyphs, the last glyph any code), and           *)
(* decodeFromElements run step by step on element streams: the symbols of  *)
(* one data glyph (any code) or of up to MaxData data glyphs from          *)
(* StreamGlyphs, with the right or a wrong check glyph, with or without    *)
(* the stop glyph, without the start glyph or behind stray elements, and   *)
(* each well-formed symbol with one element after the start glyph changed. *)
(***************************************************************************)
MaxData == 2

MaxLead == 1

SampleGlyphs == {0, 17, 27, 100, 122, 127}

GlyphLists ==
  {d \o <<c>> : d \in UNION {[1..n -> SampleGlyphs] : n \in 0..MaxData},
                c \in 0..127}

StreamGlyphs == {17, 27, 100, 127}

DataLists ==
  [1..1 -> 0..127] \cup UNION {[1..n -> StreamGlyphs] : n \in 2..MaxData}

\* A check glyph that is not the right one.
WrongCheck(dataGlyphs) == (CheckGlyph(dataGlyphs) + 1) % 128

StreamInput(d, c, withStart, withStop, k, n) ==
  [kind |-> "stream", data |-> d, check |-> c, start |-> withStart,
   stop |-> withStop, flip |-> k, lead |-> n]

\* Symbols as encoded: with the right or a wrong check glyph, with or
\* without the stop glyph.
PlainInputs ==
  {StreamInput(d, c, TRUE, s, -1, 0) :
     d \in DataLists, c \in 0..127, s \in BOOLEAN}

CheckedInputs ==
  {in \in PlainInputs :
     in.check \in {CheckGlyph(in.data), WrongCheck(in.data)}}

\* Well-formed symbols without the start glyph, or after some elements that
\* belong to no symbol.
UnframedInputs ==
  {StreamInput(d, CheckGlyph(d), FALSE, TRUE, -1, 0) : d \in DataLists}
    \cup {StreamInput(d, CheckGlyph(d), TRUE, TRUE, -1, n) :
             d \in DataLists, n \in 1..MaxLead}

\* Well-formed symbols with one element of a data glyph or of the check
\* glyph changed.
FlippedInputs ==
  UNION {{StreamInput(d, CheckGlyph(d), TRUE, TRUE, k, 0) :
            k \in 0..(Len(Patterns(d \o <<CheckGlyph(d)>>)) - 1)} :
         d \in DataLists}

ElementInputs == CheckedInputs \cup UnframedInputs \cup FlippedInputs

MatcherIdle ==
  /\ elements = <<>>
  /\ startIdx = -1
  /\ idx = 0
  /\ consecutiveMisses = 0

RowIdle ==
  /\ grayscale = <<>>
  /\ threshold = 0
  /\ runs = <<>>

CanvasIdle ==
  /\ scanLines = <<>>
  /\ lineIdx = 0
  /\ examined = <<>>
  /\ returned = Null
  /\ attempts = 0

\* No shim takes part: its fields hold the values of a shim built for no
\* format of interest, and no call of it is made.
ShimIdle ==
  /\ telepenRequested = FALSE
  /\ primaryDecoder = "ZXingHtml5QrcodeDecoder"
  /\ secondaryDecoder = Undefined
  /\ verbose = FALSE
  /\ executions = 0
  /\ wasPrimaryDecoderUsedInLastDecode = FALSE
  /\ frames = <<>>
  /\ calls = 0
  /\ pending = [m \in Methods |-> 0]
  /\ trace = <<>>

InitGlyphs ==
  /\ pc = "glyphs"
  /\ glyphs \in GlyphLists
  /\ foundStopChar \in BOOLEAN
  /\ input = [kind |-> "glyphs"]
  /\ MatcherIdle
  /\ result = Null
  /\ RowIdle
  /\ CanvasIdle
  /\ ShimIdle

InitElements ==
  /\ pc = "elements"
  /\ input \in ElementInputs
  /\ elements = InputElements(input)
  /\ startIdx = -1
  /\ idx = 0
  /\ glyphs = <<>>
  /\ foundStopChar = FALSE
  /\ consecutiveMisses = 0
  /\ result = Null
  /\ RowIdle
  /\ CanvasIdle
  /\ ShimIdle

InitDecode == InitGlyphs \/ InitElements

\* A direct call of decodeGlyphsToDigits.
DecodeGlyphs ==
  /\ pc = "glyphs"
  /\ result' = decodeGlyphsToDigits(glyphs, foundStopChar)
  /\ pc' = "decoded"
  /\ UNCHANGED <<input, matcherVars, rowVars, canvasVars, shimVars>>

LoopState ==
  [glyphs |-> glyphs, idx |-> idx, foundStopChar |-> foundStopChar,
   consecutiveMisses |-> consecutiveMisses]

SetLoopState(st) ==
  /\ glyphs' = st.glyphs
  /\ idx' = st.idx
  /\ foundStopChar' = st.foundStopChar
  /\ consecutiveMisses' = st.consecutiveMisses

\* Lines 457-482: the start search.
StartFound ==
  /\ pc = "elements"
  /\ FindStartIdx(elements) >= 0
  /\ startIdx' = FindStartIdx(elements)
  /\ SetLoopState(LoopStart(FindStartIdx(elements)))
  /\ pc' = "match"
  /\ UNCHANGED <<input, elements, result, rowVars, canvasVars, shimVars>>

\* Lines 471-474.
StartNotFound ==
  /\ pc = "elements"
  /\ FindStartIdx(elements) < 0
  /\ result' = Null
  /\ pc' = "decoded"
  /\ UNCHANGED <<input, matcherVars, rowVars, canvasVars, shimVars>>

\* One iteration of the loop of lines 485-519: the stop glyph, another glyph
\* or a miss at idx.
MatchStep ==
  /\ pc = "match"
  /\ LoopCondition(elements, LoopState)
  /\ SetLoopState(MatchIteration(elements, LoopState))
  /\ UNCHANGED <<pc, input, elements, startIdx, result, rowVars, canvasVars,
                 shimVars>>

\* Lines 521-527, once the loop has ended.
FinishElements ==
  /\ pc = "match"
  /\ ~LoopCondition(elements, LoopState)
  /\ result' = AfterLoop(LoopState)
  /\ pc' = "decoded"
  /\ UNCHANGED <<input, matcherVars, rowVars, canvasVars, shimVars>>

NextDecode ==
  \/ DecodeGlyphs
  \/ StartFound
  \/ StartNotFound
  \/ MatchStep
  \/ FinishElements

SpecDecode == InitDecode /\ [][NextDecode]_vars

(***************************************************************************)
(* Specification SpecRow: calculateOtsuThreshold and getRunLengths applied *)
(* to every row of at most MaxRowLen grey levels from Levels, the run      *)
(* lengths taken at a threshold from Thresholds or at the Otsu threshold   *)
(* of the row.  Levels and Thresholds are in thousandths; they hold values *)
(* below 0 and above 255, non-integers, and values that differ by one      *)
(* thousandth.                                                             *)
(***************************************************************************)
MaxRowLen == 3

Levels == {-1000, 0, 999, 127999, 128000, 200500, 255000, 300000}

Thresholds == {0, 1000, 128000, 255000, 256000}

Rows == UNION {[1..n -> Levels] : n \in 0..MaxRowLen}

InitRow ==
  /\ pc = "row"
  /\ input = [kind |-> "row"]
  /\ grayscale \in Rows
  /\ threshold \in Thresholds
  /\ runs = <<>>
  /\ elements = <<>>
  /\ startIdx = -1
  /\ idx = 0
  /\ glyphs = <<>>
  /\ foundStopChar = FALSE
  /\ consecutiveMisses = 0
  /\ result = Null
  /\ CanvasIdle
  /\ ShimIdle

\* Line 236.
CalculateThreshold ==
  /\ pc = "row"
  /\ threshold' = calculateOtsuThreshold(grayscale)
  /\ pc' = "threshold"
  /\ UNCHANGED <<input, matcherVars, result, grayscale, runs, canvasVars,
                 shimVars>>

\* Line 239, or a call with a threshold of the caller's choice.
GetRunLengths ==
  /\ pc \in {"row", "threshold"}
  /\ runs' = getRunLengths(grayscale, threshold)
  /\ pc' = "runs"
  /\ UNCHANGED <<input, matcherVars, result, grayscale, threshold, canvasVars,
                 shimVars>>

NextRow ==
  \/ CalculateThreshold
  \/ GetRunLengths

SpecRow == InitRow /\ [][NextRow]_vars

(***************************************************************************)
(* Specification SpecCanvas: decodeTelepenFromCanvas run row by row and    *)
(* direction by direction on canvases whose rows are drawn from row        *)
(* descriptions: a blank row (grey 200), or a symbol drawn one pixel per   *)
(* unit in black on white behind a quiet zone, as encoded or with a fault, *)
(* left to right or mirrored.  The canvases are                            *)
(*  - one row holding the ideal symbol of a digit string: every pair of    *)
(*    digits, and the strings of two pairs from SamplePairs, with a quiet  *)
(*    zone of 2 or of MaxQuiet pixels;                                     *)
(*  - one row holding a symbol with one fault (FaultyRows);                *)
(*  - canvases of a height from Heights, blank but for at most MaxMarked   *)
(*    rows among the rows the scan can reach; a marked row holds the       *)
(*    symbol of its own row number, mirrored on the even rows, so that the *)
(*    text returned names the row it was read from;                        *)
(*  - a canvas without a 2d context.                                       *)
(***************************************************************************)
MaxQuiet == 3

MaxMarked == 2

Heights == {2, 10, 90}

SamplePairs == {PairGlyph(0, 0), PairGlyph(7, 8), PairGlyph(9, 5)}

PairLists == [1..1 -> 27..126] \cup [1..2 -> SamplePairs]

Blank == [blank |-> TRUE]

RowSymbol(d, c, withStart, withStop, k, mirrored, f) ==
  [data |-> d, check |-> c, start |-> withStart, stop |-> withStop,
   flip |-> k, lead |-> 0, mirrored |-> mirrored, fault |-> f]

IdealRow(d, mirrored) ==
  RowSymbol(d, CheckGlyph(d), TRUE, TRUE, -1, mirrored, "none")

\* One row for each way of the decoder to fail: no stop glyph, a wrong check
\* glyph, no start glyph, a single glyph between start and stop, data glyphs
\* that stand for no digit, and an element changed so that two positions in
\* a row match nothing.
FaultyRows ==
  {RowSymbol(<<39>>, CheckGlyph(<<39>>), TRUE, FALSE, -1, m, "stop") :
     m \in BOOLEAN}
    \cup {RowSymbol(<<27, 100>>, 0, TRUE, FALSE, -1, FALSE, "stop"),
          RowSymbol(<<39>>, WrongCheck(<<39>>), TRUE, TRUE, -1, FALSE,
                    "checksum"),
          RowSymbol(<<39>>, CheckGlyph(<<39>>), FALSE, TRUE, -1, FALSE,
                    "start"),
          RowSymbol(<<>>, CheckGlyph(<<>>), TRUE, TRUE, -1, FALSE, "glyphs"),
          RowSymbol(<<3>>, CheckGlyph(<<3>>), TRUE, TRUE, -1, FALSE, "digits"),
          RowSymbol(<<39>>, CheckGlyph(<<39>>), TRUE, TRUE, 0, FALSE,
                    "misses")}

\* The symbol a marked row y holds: the digit pair of y, mirrored where y
\* is even.
MarkedRow(y) == IdealRow(<<PairGlyph(y \div 10, y % 10)>>, y % 2 = 0)

\* The rows a scan of a canvas of this height can reach, and the rows
\* floor(height * f) of exact arithmetic.
ReachableRows(height) ==
  {FloorMul(height, ScanFractions[k]) : k \in 1..Len(ScanFractions)}
    \cup {ExactFloor(height, ScanFractions[k]) : k \in 1..Len(ScanFractions)}

\* Lines 11-13 drawn at one pixel per unit: bars (0) and spaces (255) in
\* turn, for the elements lo to hi.
RECURSIVE DrawRange(_, _, _, _)
DrawRange(elems, lo, hi, pixels) ==
  IF lo > hi THEN pixels
  ELSE IF lo = hi
       THEN pixels \o [i \in 1..elems[lo] |-> IF lo % 2 = 1 THEN 0 ELSE 255]
  ELSE LET mid == (lo + hi) \div 2
           first == DrawRange(elems, lo, mid, pixels)
       IN  IF first = first THEN DrawRange(elems, mid + 1, hi, first)
           ELSE pixels

\* The grey of each pixel of a row of the given width.
RowColours(row, width, quiet) ==
  IF row = Blank THEN [x \in 1..width |-> 200]
  ELSE LET elems == IF "stripes" \in DOMAIN row THEN row.stripes
                    ELSE InputElements(row)
           drawn == DrawRange(elems, 1, Len(elems), [i \in 1..quiet |-> 255])
           padded == [x \in 1..width |->
                        IF x <= Len(drawn) THEN drawn[x] ELSE 255]
       IN  IF row.mirrored THEN Reverse(padded) ELSE padded

\* Line 214: ctx.getImageData(0, y, width, 1).data, four bytes per pixel.
ImageData(canvas, y) ==
  LET colours == RowColours(canvas.rows[y], canvas.width, canvas.quiet)
  IN  [i \in 1..(4 * canvas.width) |->
         IF i % 4 = 0 THEN 255 ELSE colours[(i - 1) \div 4 + 1]]

\* The width of a symbol of n data glyphs between two quiet zones: start,
\* check and stop glyph included, 16 units per glyph.
SymbolWidth(n, quiet) == 2 * quiet + 16 * (n + 3)

Canvas(family, hasContext, quiet, width, height, rows) ==
  [kind |-> "canvas", family |-> family, hasContext |-> hasContext,
   quiet |-> quiet, width |-> width, height |-> height, rows |-> rows]

IdealCanvases ==
  {Canvas("ideal", TRUE, q, SymbolWidth(Len(d), q), 1,
          [y \in 0..0 |-> IdealRow(d, m)]) :
     d \in PairLists, m \in BOOLEAN, q \in {2, MaxQuiet}}

FaultyCanvases ==
  {Canvas("faulty", TRUE, MaxQuiet, SymbolWidth(2, MaxQuiet) + 2, 1,
          [y \in 0..0 |-> row]) : row \in FaultyRows}

\* The ways to mark at most MaxMarked of the rows.
Markings(rowSet) ==
  {[y \in rowSet |-> IF y \in marked THEN MarkedRow(y) ELSE Blank] :
     marked \in {s \in SUBSET rowSet : Cardinality(s) <= MaxMarked}}

OrderingCanvases ==
  UNION {{Canvas("ordering", TRUE, MaxQuiet, SymbolWidth(1, MaxQuiet), h,
                 [y \in 0..(h - 1) |->
                    IF y \in DOMAIN f THEN f[y] ELSE Blank]) :
            f \in Markings(ReachableRows(h))} : h \in Heights}

NoContextCanvases ==
  {Canvas("nocontext", FALSE, MaxQuiet, 1, 1, [y \in 0..0 |-> Blank])}

Canvases ==
  IdealCanvases \cup FaultyCanvases \cup OrderingCanvases
    \cup NoContextCanvases

InitCanvas ==
  /\ pc = "canvas"
  /\ input \in Canvases
  /\ elements = <<>>
  /\ startIdx = -1
  /\ idx = 0
  /\ glyphs = <<>>
  /\ foundStopChar = FALSE
  /\ consecutiveMisses = 0
  /\ result = Null
  /\ RowIdle
  /\ CanvasIdle
  /\ ShimIdle

Examined(step, r) ==
  Append(examined, [line |-> lineIdx, y |-> scanLines[lineIdx + 1],
                    step |-> step, result |-> r])

\* Lines 192-193.
NoContext ==
  /\ pc = "canvas"
  /\ ~input.hasContext
  /\ returned' = Null
  /\ pc' = "returned"
  /\ UNCHANGED <<input, matcherVars, result, rowVars, scanLines, lineIdx,
                 examined, attempts, shimVars>>

\* Lines 195-211.
ComputeScanLines ==
  /\ pc = "canvas"
  /\ input.hasContext
  /\ scanLines' = ScanLines(input.height)
  /\ lineIdx' = 0
  /\ pc' = "line"
  /\ UNCHANGED <<input, matcherVars, result, rowVars, examined, returned,
                 attempts, shimVars>>

\* Lines 213-215 and 228-243: the next row is read, turned to grey levels,
\* thresholded and cut into runs.
ScanRow ==
  /\ pc = "line"
  /\ lineIdx < Len(scanLines)
  /\ LET data == ImageData(input, scanLines[lineIdx + 1])
         gray == Grayscale(data, input.width)
         limit == calculateOtsuThreshold(gray)
         runList == getRunLengths(gray, limit)
     IN  /\ grayscale' = gray
         /\ threshold' = limit
         /\ runs' = runList
         /\ pc' = IF Len(runList) < MIN_RUNS THEN "check" ELSE "forward"
  /\ result' = Null
  /\ examined' = Examined("row", Null)
  /\ UNCHANGED <<input, matcherVars, scanLines, lineIdx, returned, attempts,
                 shimVars>>

\* Line 246.
TryForward ==
  /\ pc = "forward"
  /\ LET forward == tryDecode(runs)
     IN  /\ result' = forward
         /\ attempts' = attempts + AttemptsMade(runs)
         /\ examined' = Examined("forward", forward)
         /\ pc' = IF Accepted(forward) THEN "check" ELSE "reverse"
  /\ UNCHANGED <<input, matcherVars, rowVars, scanLines, lineIdx, returned,
                 shimVars>>

\* Lines 247-252.
TryReverse ==
  /\ pc = "reverse"
  /\ LET reverseResult == tryDecode(Reverse(runs))
     IN  /\ result' = IF Accepted(reverseResult) THEN reverseResult
                      ELSE result
         /\ attempts' = attempts + AttemptsMade(Reverse(runs))
         /\ examined' = Examined("reverse", reverseResult)
  /\ pc' = "check"
  /\ UNCHANGED <<input, matcherVars, rowVars, scanLines, lineIdx, returned,
                 shimVars>>

\* Lines 216-219.
ReturnText ==
  /\ pc = "check"
  /\ Accepted(result)
  /\ returned' = result.text
  /\ pc' = "returned"
  /\ UNCHANGED <<input, matcherVars, result, rowVars, scanLines, lineIdx,
                 examined, attempts, shimVars>>

\* Lines 216 and 220: on to the next row.
NextLine ==
  /\ pc = "check"
  /\ ~Accepted(result)
  /\ lineIdx' = lineIdx + 1
  /\ pc' = "line"
  /\ UNCHANGED <<input, matcherVars, result, rowVars, scanLines, examined,
                 returned, attempts, shimVars>>

\* Lines 222-223.
NoBarcode ==
  /\ pc = "line"
  /\ lineIdx >= Len(scanLines)
  /\ returned' = Null
  /\ pc' = "returned"
  /\ UNCHANGED <<input, matcherVars, result, rowVars, scanLines, lineIdx,
                 examined, attempts, shimVars>>

NextCanvas ==
  \/ NoContext
  \/ ComputeScanLines
  \/ ScanRow
  \/ TryForward
  \/ TryReverse
  \/ ReturnText
  \/ NextLine
  \/ NoBarcode

SpecCanvas == InitCanvas /\ [][NextCanvas]_vars

(***************************************************************************)
(* Specification SpecWork: the calls of SpecDecode and those of SpecCanvas *)
(* in one specification, for the properties that speak of the work of      *)
(* both decodeFromElements and decodeTelepenFromCanvas.                    *)
(***************************************************************************)
InitWork == InitDecode \/ InitCanvas

NextWork == NextDecode \/ NextCanvas

SpecWork == InitWork /\ [][NextWork]_vars

(***************************************************************************)
(* Html5QrcodeShim (src/unnamed/part_000).  A shim is constructed, and     *)
(* then up to MaxCalls calls of decodeAsync and decodeRobustlyAsync are    *)
(* made.  The code of a call runs without interruption up to its await,    *)
(* so it is one step; the promise of the standard decoder settles later,   *)
(* and other calls may be made before it does.  Where Telepen is requested *)
(* the call runs decodeTelepenFromCanvas on a canvas of ShimCanvases; its  *)
(* result there is TelepenText, which the decoder's own steps confirm      *)
(* under SpecWidth.  The standard decoders are not modelled: their promise *)
(* resolves or rejects.                                                    *)
(***************************************************************************)
MaxCalls == 3

\* Line 36.
EXECUTIONS_TO_REPORT_PERFORMANCE == 100

\* A mirrored symbol, a blank row and a canvas without 2d context.
ShimCanvases ==
  {Canvas("ideal", TRUE, 2, SymbolWidth(1, 2), 1,
          [y \in 0..0 |-> IdealRow(<<PairGlyph(3, 9)>>, TRUE)]),
   Canvas("blank", TRUE, 2, SymbolWidth(1, 2), 1, [y \in 0..0 |-> Blank])}
    \cup NoContextCanvases

\* Lines 146-160, on the count of executions (executionResults has as many
\* entries).
possiblyFlushPerformanceReport(count) ==
  IF count < EXECUTIONS_TO_REPORT_PERFORMANCE THEN count ELSE 0

\* Lines 133-141.
possiblyLogPerformance(count) ==
  IF ~verbose THEN count ELSE possiblyFlushPerformanceReport(count + 1)

\* Lines 120-131 with lines 126 and 129 left out: the alternation state is
\* never written.
getDecoderNoToggle ==
  IF secondaryDecoder = Undefined
  THEN [decoder |-> "primary", was |-> wasPrimaryDecoderUsedInLastDecode]
  ELSE IF wasPrimaryDecoderUsedInLastDecode = FALSE
       THEN [decoder |-> "primary", was |-> wasPrimaryDecoderUsedInLastDecode]
  ELSE [decoder |-> "secondary", was |-> wasPrimaryDecoderUsedInLastDecode]

\* Lines 120-131: the decoder returned and the alternation state left.
getDecoder ==
  IF secondaryDecoder = Undefined
  THEN [decoder |-> "primary", was |-> wasPrimaryDecoderUsedInLastDecode]
  ELSE IF wasPrimaryDecoderUsedInLastDecode = FALSE
       THEN [decoder |-> "primary", was |-> TRUE]
  ELSE [decoder |-> "secondary", was |-> FALSE]

\* Lines 74 and 98: if (telepenResult), for a string or null.
Truthy(text) == text # Null /\ text # <<>>

\* An entry of the trace: the method, who was asked ("telepen-decoder",
\* "primary" or "secondary") and the text decodeTelepenFromCanvas gave.
Asked(method, decoder, text) ==
  [by |-> method, decoder |-> decoder, telepenText |-> text]

\* What decodeTelepenFromCanvas (telepen-decoder.ts, lines 192-224) returns
\* on each canvas of ShimCanvases: the digits of the symbol, and null where
\* there is no symbol or no context.  CanvasAgrees states that the steps of
\* the decoder return the same.
TelepenText ==
  [canvas \in ShimCanvases |->
     IF canvas.hasContext /\ canvas.rows[0] # Blank THEN <<"3", "9">>
     ELSE Null]

\* Lines 41-64: the state after construction.
InitShim ==
  /\ frames = TelepenText
  /\ pc = "shim"
  /\ input = [kind |-> "shim"]
  /\ glyphs = <<>>
  /\ foundStopChar = FALSE
  /\ MatcherIdle
  /\ result = Null
  /\ RowIdle
  /\ CanvasIdle
  /\ telepenRequested \in BOOLEAN
  /\ verbose \in BOOLEAN
  /\ \E useBarCodeDetectorIfSupported, isSupported \in BOOLEAN :
       IF useBarCodeDetectorIfSupported /\ isSupported
       THEN /\ primaryDecoder = "BarcodeDetectorDelegate"
            /\ secondaryDecoder = "ZXingHtml5QrcodeDecoder"
       ELSE /\ primaryDecoder = "ZXingHtml5QrcodeDecoder"
            /\ secondaryDecoder = Undefined
  /\ executions = 0
  /\ wasPrimaryDecoderUsedInLastDecode = FALSE
  /\ calls = 0
  /\ pending = [m \in Methods |-> 0]
  /\ trace = <<>>

\* decodeAsync, lines 66-89, up to its await; frames[canvas] is
\* decodeTelepenFromCanvas(canvas).  A Telepen text is returned
\* at once and the finally block logs; else the decoder getDecoder() gives
\* is asked and its promise awaited.
decodeAsync ==
  /\ pc = "shim"
  /\ calls < MaxCalls
  /\ \E canvas \in DOMAIN frames :
       LET telepenResult == IF telepenRequested
                            THEN frames[canvas]
                            ELSE Null
       IN  /\ input' = canvas
           /\ IF telepenRequested /\ Truthy(telepenResult)
              THEN /\ trace' = Append(trace, Asked("decodeAsync",
                                                   "telepen-decoder",
                                                   telepenResult))
                   /\ executions' = possiblyLogPerformance(executions)
                   /\ UNCHANGED <<wasPrimaryDecoderUsedInLastDecode, pending>>
              ELSE /\ wasPrimaryDecoderUsedInLastDecode' = getDecoder.was
                   /\ trace' = Append(trace, Asked("decodeAsync",
                                                   getDecoder.decoder, <<>>))
                   /\ pending' = [pending EXCEPT !["decodeAsync"] = @ + 1]
                   /\ UNCHANGED executions
  /\ calls' = calls + 1
  /\ UNCHANGED <<pc, matcherVars, result, rowVars, canvasVars,
                 telepenRequested, primaryDecoder, secondaryDecoder, verbose,
                 frames>>

\* decodeRobustlyAsync, lines 91-108, up to its await: Telepen first, else
\* the primary decoder is asked.
decodeRobustlyAsync ==
  /\ pc = "shim"
  /\ calls < MaxCalls
  /\ \E canvas \in DOMAIN frames :
       LET telepenResult == IF telepenRequested
                            THEN frames[canvas]
                            ELSE Null
       IN  /\ input' = canvas
           /\ IF telepenRequested /\ Truthy(telepenResult)
              THEN /\ trace' = Append(trace, Asked("decodeRobustlyAsync",
                                                   "telepen-decoder",
                                                   telepenResult))
                   /\ executions' = possiblyLogPerformance(executions)
                   /\ UNCHANGED pending
              ELSE /\ trace' = Append(trace, Asked("decodeRobustlyAsync",
                                                   "primary", <<>>))
                   /\ pending' = [pending EXCEPT
                                    !["decodeRobustlyAsync"] = @ + 1]
                   /\ UNCHANGED executions
  /\ calls' = calls + 1
  /\ UNCHANGED <<pc, matcherVars, result, rowVars, canvasVars,
                 telepenRequested, primaryDecoder, secondaryDecoder, verbose,
                 frames,
                 wasPrimaryDecoderUsedInLastDecode>>

\* Lines 85-88: the promise awaited by a decodeAsync call resolves or
\* rejects; the finally block runs in both cases.
SettleDecodeAsync ==
  /\ pc = "shim"
  /\ pending["decodeAsync"] > 0
  /\ pending' = [pending EXCEPT !["decodeAsync"] = @ - 1]
  /\ executions' = possiblyLogPerformance(executions)
  /\ UNCHANGED <<pc, input, matcherVars, result, rowVars, canvasVars,
                 telepenRequested, primaryDecoder, secondaryDecoder, verbose,
                 frames,
                 wasPrimaryDecoderUsedInLastDecode, calls, trace>>

\* Lines 108 and 115-117: the primary decoder of a decodeRobustlyAsync call
\* resolves.
RobustResolved ==
  /\ pc = "shim"
  /\ pending["decodeRobustlyAsync"] > 0
  /\ pending' = [pending EXCEPT !["decodeRobustlyAsync"] = @ - 1]
  /\ executions' = possiblyLogPerformance(executions)
  /\ UNCHANGED <<pc, input, matcherVars, result, rowVars, canvasVars,
                 telepenRequested, primaryDecoder, secondaryDecoder, verbose,
                 frames,
                 wasPrimaryDecoderUsedInLastDecode, calls, trace>>

\* Lines 109-117: the primary decoder of a decodeRobustlyAsync call
\* rejects; the secondary decoder is asked if there is one, else the error
\* is thrown on.
RobustRejected ==
  /\ pc = "shim"
  /\ pending["decodeRobustlyAsync"] > 0
  /\ pending' = [pending EXCEPT !["decodeRobustlyAsync"] = @ - 1]
  /\ trace' = IF secondaryDecoder # Undefined
              THEN Append(trace,
                          Asked("decodeRobustlyAsync", "secondary", <<>>))
              ELSE trace
  /\ executions' = possiblyLogPerformance(executions)
  /\ UNCHANGED <<pc, input, matcherVars, result, rowVars, canvasVars,
                 telepenRequested, primaryDecoder, secondaryDecoder, verbose,
                 frames,
                 wasPrimaryDecoderUsedInLastDecode, calls>>

NextShim ==
  \/ decodeAsync
  \/ decodeRobustlyAsync
  \/ SettleDecodeAsync
  \/ RobustResolved
  \/ RobustRejected

SpecShim == InitShim /\ [][NextShim]_vars

(***************************************************************************)
(* Rows of stripes for the width estimation: bars and spaces of two        *)
(* widths in turn, every period-th stripe of the second width, behind a    *)
(* quiet zone or from the first pixel on.  The widths are equal, or in a   *)
(* ratio of 2, 3 or 5; there are too few stripes for a row to be tried     *)
(* (MIN_SAMPLES, or one less than MIN_RUNS), just enough, or up to         *)
(* MaxStripes.  With them come the canvases of ShimCanvases.               *)
(***************************************************************************)
MaxStripes == 21

StripeCounts == {MIN_SAMPLES} \cup ((MIN_RUNS - 1)..MaxStripes)

StripeWidths == {<<1, 1>>, <<1, 2>>, <<1, 3>>, <<1, 5>>, <<2, 3>>, <<2, 6>>}

Stripes(n, widths, period) ==
  [k \in 1..n |-> IF k % period = 0 THEN widths[2] ELSE widths[1]]

StripedRow(lengths) == [stripes |-> lengths, mirrored |-> FALSE]

StripedCanvases ==
  {Canvas("striped", TRUE, q, q + SumSeq(Stripes(n, w, p)), 1,
          [y \in 0..0 |-> StripedRow(Stripes(n, w, p))]) :
     n \in StripeCounts, w \in StripeWidths, p \in {2, 3}, q \in {0, 2}}

WidthCanvases == StripedCanvases \cup ShimCanvases

\* decodeTelepenFromCanvas is called on a canvas of WidthCanvases.
InitWidth ==
  /\ pc = "canvas"
  /\ input \in WidthCanvases
  /\ glyphs = <<>>
  /\ foundStopChar = FALSE
  /\ MatcherIdle
  /\ result = Null
  /\ RowIdle
  /\ CanvasIdle
  /\ ShimIdle

SpecWidth == InitWidth /\ [][NextCanvas]_vars

(***************************************************************************)
(* Properties of the tables, of decodeGlyphsToDigits and of                *)
(* decodeFromElements, checked under SpecDecode.                           *)
(***************************************************************************)
\* The pattern of code c lies at position at of elems (stated on the table,
\* not through matchPattern).
MatchesAt(c, elems, at) ==
  /\ at + Len(TeleTable[c + 1]) <= Len(elems)
  /\ SubSeq(elems, at + 1, at + Len(TeleTable[c + 1])) = TeleTable[c + 1]

\* The number of characters a data glyph adds to the text.
Contribution(g) ==
  IF g \in 27..126 THEN 2 ELSE IF g \in 17..26 THEN 1 ELSE 0

RECURSIVE TextOffset(_, _)
TextOffset(dataGlyphs, j) ==
  IF j = 0 THEN 0
  ELSE TextOffset(dataGlyphs, j - 1) + Contribution(dataGlyphs[j])

IsPrefix(s, t) == Len(s) <= Len(t) /\ s = SubSeq(t, 1, Len(s))

\* C4: every text decodeGlyphsToDigits produces holds only the characters
\* 0-9 and is, in glyph order over the glyphs before the last one, the two
\* digits floor((g-27)/10), (g-27) mod 10 of each g in 27..126 and the one
\* digit g-17 of each g in 17..26, nothing for any other glyph and nothing
\* for the last glyph; the glyphs decodeFromElements hands over never hold
\* the stop code and, for a symbol as encoded, are the glyphs that follow
\* the start glyph, so neither frame glyph adds a character.
C4_DigitsOnly ==
  (pc = "decoded" /\ result # Null) =>
    LET data == SubSeq(glyphs, 1, Len(glyphs) - 1)
        text == result.text
    IN  /\ \A i \in 1..Len(text) : \E d \in 0..9 : text[i] = DigitChars[d + 1]
        /\ Len(text) = TextOffset(data, Len(data))
        /\ \A j \in 1..Len(data) :
             LET g == data[j]
                 off == TextOffset(data, j - 1)
             IN  /\ g \in 27..126 =>
                      /\ text[off + 1] = DigitChars[((g - 27) \div 10) + 1]
                      /\ text[off + 2] = DigitChars[((g - 27) % 10) + 1]
                 /\ g \in 17..26 => text[off + 1] = DigitChars[(g - 17) + 1]
        /\ input.kind = "stream" =>
             /\ \A j \in 1..Len(glyphs) : glyphs[j] # STOP_CHAR
             /\ (input.flip < 0 /\ input.start /\ input.lead = 0) =>
                  IsPrefix(glyphs, input.data \o <<input.check>>)

\* C4 witness: a symbol decoded to three characters, a single-digit glyph
\* and a digit-pair glyph both contributing.
C4_Witness ==
  /\ pc = "decoded"
  /\ result # Null
  /\ input.kind = "stream"
  /\ Len(result.text) = 3

TablesAgree ==
  /\ Len(TeleTable) = 128
  /\ Len(TeleLens) = 128
  /\ \A c \in 0..127 :
       /\ Len(TeleTableAt(c)) = TeleLensAt(c)
       /\ \A i \in 0..(Len(TeleTableAt(c)) - 1) :
            CharCodeAt(TeleTableAt(c), i) \in {49, 51}

\* C7: TeleTable and TeleLens have 128 entries each; for every code c the
\* number of symbols of TeleTable[c] is TeleLens[c], and every symbol is the
\* character 1 or 3; so the length the matcher advances by for a glyph it
\* collected is the length of the pattern it compared.
C7_TableIntegrity ==
  /\ \A j \in 1..Len(glyphs) :
       TeleLensAt(glyphs[j]) = Len(TeleTableAt(glyphs[j]))
  /\ TablesAgree

\* C7 witness: the matcher has advanced over glyphs by their TeleLens and
\* stands exactly behind their TeleTable patterns.
C7_Witness ==
  /\ pc = "match"
  /\ Len(glyphs) >= 2
  /\ idx = startIdx + Len(TeleTableAt(START_CHAR)) + Len(Patterns(glyphs))
  /\ idx = Len(elements)

Unflipped(in) == [in EXCEPT !.flip = -1]

\* C3, as claimed: once one element of a data glyph of a well-formed symbol
\* (one that decodes, with its stop glyph, as encoded) is changed, the
\* decode of the elements has no accepted result.
C3_ChecksumGate ==
  ( /\ pc = "decoded"
    /\ input.kind = "stream"
    /\ input.flip >= 0
    /\ input.flip < Len(Patterns(input.data))
    /\ Accepted(decodeFromElements(InputElements(Unflipped(input)))) )
  => ~Accepted(result)

(***************************************************************************)
(* Properties of getRunLengths and calculateOtsuThreshold, checked under   *)
(* SpecRow.                                                                *)
(***************************************************************************)
RunLengthsOf(runList) == [k \in 1..Len(runList) |-> runList[k].length]

\* The source indices of the pixels that run k covers.
PixelsOfRun(runList, k) ==
  LET before == SumSeq(SubSeq(RunLengthsOf(runList), 1, k - 1))
  IN  before..(before + runList[k].length - 1)

\* C6: the runs that getRunLengths returns for a row and a threshold have
\* lengths of at least 1 that sum to the length of the row, adjacent runs
\* differ in isBar, the isBar of a run is (grey < threshold) at every pixel
\* the run covers, and there is no run exactly when the row is empty.
C6_RunSum ==
  pc = "runs" =>
    /\ \A k \in 1..Len(runs) : runs[k].length >= 1
    /\ SumSeq(RunLengthsOf(runs)) = Len(grayscale)
    /\ \A k \in 1..(Len(runs) - 1) : runs[k].isBar # runs[k + 1].isBar
    /\ \A k \in 1..Len(runs) :
         \A x \in PixelsOfRun(runs, k) :
           /\ x + 1 \in 1..Len(grayscale)
           /\ runs[k].isBar = (grayscale[x + 1] < threshold)
    /\ (runs = <<>>) <=> (grayscale = <<>>)

\* C6 witness: a row cut into a run of two pixels and a run of one pixel.
C6_Witness ==
  /\ pc = "runs"
  /\ Len(runs) = 2
  /\ runs[1].length = 2
  /\ runs[2].isBar

IsConstantRow(gray) == \A i, j \in 1..Len(gray) : gray[i] = gray[j]

\* C8: calculateOtsuThreshold returns an integer from 1 to 254, never 0 or
\* 255: where its loop ends with 0 or 255 it returns 128; it returns 128
\* for every row of equal pixels and for the empty row.
C8_OtsuDegeneracy ==
  pc = "threshold" =>
    /\ threshold \in {k * GRAY_SCALE : k \in 1..254}
    /\ OtsuLoop(grayscale) \in {0, 255} => threshold = 128 * GRAY_SCALE
    /\ IsConstantRow(grayscale) => threshold = 128 * GRAY_SCALE

\* C8 witness: a row of black and other pixels, where the loop ends with 0
\* and 128 is returned.
C8_Witness ==
  /\ pc = "threshold"
  /\ ~IsConstantRow(grayscale)
  /\ OtsuLoop(grayscale) = 0
  /\ threshold = 128 * GRAY_SCALE

(***************************************************************************)
(* Properties of decodeTelepenFromCanvas, checked under SpecCanvas.        *)
(***************************************************************************)
\* A record that passes the checksum and the stop test.
IsValid(r) == r # Null /\ r.checksumValid /\ r.hasStopChar

\* The runs an examined direction was decoded from, while runs holds the
\* runs of its row.
RunsOf(e) == IF e.step = "reverse" THEN Reverse(runs) ELSE runs

\* Some tolerance attempt on the runs of e produces the record r.
ProducedBy(e, r) ==
  LET first == FirstBar(RunsOf(e))
      narrowWidth == estimateNarrowWidth(RunsOf(e), first)
  IN  \E k \in 1..Len(tolerances) :
        tryDecodeWithTolerance(RunsOf(e), first, narrowWidth, tolerances[k])
          = r

\* C1: decodeTelepenFromCanvas returns a string only if an attempt (row,
\* direction, tolerance) produced a record with checksumValid and
\* hasStopChar and a non-empty text, which is the string; it returns null
\* when no attempt was valid, and for every canvas whose rows are blank or
\* hold a symbol without stop glyph, with a wrong check glyph, without start
\* glyph, with fewer than two glyphs, without digits or with two misses in
\* a row.
C1_OnlyValidReturned ==
  pc = "returned" =>
    /\ returned # Null =>
         LET e == examined[Len(examined)]
         IN  /\ e.step \in {"forward", "reverse"}
             /\ e.result # Null
             /\ e.result.checksumValid
             /\ e.result.hasStopChar
             /\ e.result.text # <<>>
             /\ returned = e.result.text
             /\ ProducedBy(e, e.result)
    /\ (\A i \in 1..Len(examined) : ~IsValid(examined[i].result))
         => returned = Null
    /\ (\A y \in DOMAIN input.rows :
          input.rows[y] = Blank \/ input.rows[y].fault # "none")
         => returned = Null

\* C1 witness: a row with start, data and check glyph but no stop glyph was
\* decoded in both directions and null was returned.
C1_Witness ==
  /\ pc = "returned"
  /\ input.family = "faulty"
  /\ input.rows[0].fault = "stop"
  /\ \E i \in 1..Len(examined) : examined[i].step = "reverse"
  /\ returned = Null

\* The digit string that a list of pair glyphs encodes.
ExpectedText(d) ==
  [i \in 1..(2 * Len(d)) |->
     LET pair == d[(i + 1) \div 2] - 27
     IN  IF i % 2 = 1 THEN DigitChars[(pair \div 10) + 1]
         ELSE DigitChars[(pair % 10) + 1]]

\* C2: the ideal symbol of a non-empty digit string of even length decodes
\* to that string, as drawn and mirrored.
C2_RoundTrip ==
  pc = "returned" /\ input.family = "ideal" =>
    /\ returned # Null
    /\ returned = ExpectedText(input.rows[0].data)

\* The factors of the claim, in hundredths and in the claimed order.
ClaimedFractions == <<50, 45, 55, 40, 60, 35, 65, 30, 70>>

\* The row examined at source index k of the order: with exact = TRUE the
\* floor of the exact product, else Math.floor of the double product.
ClaimedRow(height, k, exact) ==
  IF exact THEN ExactFloor(height, ClaimedFractions[k + 1])
  ELSE FloorMul(height, ClaimedFractions[k + 1])

\* The rows are examined in the order of the factors, on each row the
\* forward direction before the reversed one, nothing follows a valid
\* attempt, and the text of the first valid attempt is returned (null if
\* all nine rows gave none).
FirstValidWins(exact) ==
  /\ \A i \in 1..Len(examined) :
       LET e == examined[i]
       IN  /\ e.line \in 0..(Len(ClaimedFractions) - 1)
           /\ e.y = ClaimedRow(input.height, e.line, exact)
           /\ i = 1 => e.line = 0 /\ e.step = "row"
           /\ i > 1 =>
                LET p == examined[i - 1]
                IN  CASE e.step = "row" ->
                           e.line = p.line + 1 /\ ~IsValid(p.result)
                      [] e.step = "forward" ->
                           p.step = "row" /\ p.line = e.line
                      [] e.step = "reverse" ->
                           /\ p.step = "forward"
                           /\ p.line = e.line
                           /\ ~IsValid(p.result)
  /\ pc = "returned" /\ input.hasContext =>
       LET last == examined[Len(examined)]
       IN  IF IsValid(last.result)
           THEN returned # Null /\ returned = last.result.text
           ELSE /\ returned = Null
                /\ last.line = Len(ClaimedFractions) - 1

\* C9 (as stated): the rows examined are floor(H * f) for f = 0.50, 0.45,
\* 0.55, 0.40, 0.60, 0.35, 0.65, 0.30, 0.70 in this order, forward before
\* reversed on each row; the text of the first valid attempt is returned and
\* nothing is examined after it.
C9_ExactRows == FirstValidWins(TRUE)

\* C9 (amended): the same with the rows Math.floor(H * f) of double
\* arithmetic, which for H = 90 and f = 0.70 is row 62 and not row 63.
C9_FirstValidWins == FirstValidWins(FALSE)

\* C9 witness: on a canvas of height 90 eight rows gave nothing, row 62 was
\* read as the ninth and decoded in the reversed direction, and its text
\* (the digits of 62) was returned; row 63 holds another symbol.
C9_Witness ==
  /\ pc = "returned"
  /\ input.height = 90
  /\ input.rows[63] # Blank
  /\ input.rows[62] # Blank
  /\ LET last == examined[Len(examined)]
     IN  /\ last.line = 8
         /\ last.y = 62
         /\ last.step = "reverse"
         /\ IsValid(last.result)
         /\ returned = last.result.text
         /\ returned = ExpectedText(input.rows[62].data)

(***************************************************************************)
(* Properties of the pattern table and of the glyph search, checked under  *)
(* SpecDecode.                                                             *)
(***************************************************************************)
\* No pattern of the table is equal to, or a prefix of, the pattern of
\* another code.
PrefixFree ==
  \A c, d \in 0..127 :
    c # d => ~IsPrefix(TeleTableAt(c), TeleTableAt(d))

\* The codes whose pattern fits and matches at a position (lines 493-496).
MatchingCodes(elems, at) ==
  {c \in 0..127 : /\ at + TeleLensAt(c) <= Len(elems)
                  /\ matchPattern(elems, at, TeleTableAt(c))}

\* The codes 0..127 in ascending order: a search order other than the one of
\* getGlyphSearchOrder.
AscendingOrder == Range(0, 127)

\* The order of getGlyphSearchOrder reversed.
ReversedOrder == Reverse(getGlyphSearchOrder)

\* C11: the table is a prefix code, so at every position the matching loop
\* examines at most one of the 128 codes matches, and the code chosen (or
\* the miss) is the same in the order of getGlyphSearchOrder, in that order
\* reversed and in ascending order of the codes.
C11_PrefixCode ==
  /\ PrefixFree
  /\ pc = "match" /\ LoopCondition(elements, LoopState) =>
       LET codes == MatchingCodes(elements, idx)
           chosen == FirstMatch(elements, idx)
       IN  /\ Cardinality(codes) <= 1
           /\ codes = {} <=> chosen = -1
           /\ chosen # -1 => codes = {chosen}
           /\ FirstMatchIn(ReversedOrder, elements, idx) = chosen
           /\ FirstMatchIn(AscendingOrder, elements, idx) = chosen

\* C11 witness: the loop stands at a position where a code of the last
\* group of the search order matches, and no other code does.
C11_Witness ==
  /\ pc = "match"
  /\ LoopCondition(elements, LoopState)
  /\ FirstMatch(elements, idx) \in 0..16
  /\ MatchingCodes(elements, idx) = {FirstMatch(elements, idx)}

(***************************************************************************)
(* Bounded work of decodeFromElements and decodeTelepenFromCanvas, checked *)
(* under SpecWork.                                                         *)
(***************************************************************************)
\* The call has returned.
Done == pc \in {"decoded", "returned"}

\* The number of entries of the history made by a step of the given kinds.
ExaminedCount(steps) ==
  Cardinality({i \in 1..Len(examined) : examined[i].step \in steps})

\* The position stays inside the elements, and a call of
\* decodeTelepenFromCanvas has read at most 9 rows, decoded at most 18
\* directions and made at most 108 tolerance attempts.
WorkBounded ==
  /\ pc = "match" => /\ idx \in 0..Len(elements)
                     /\ consecutiveMisses \in 0..MAX_CONSECUTIVE_MISSES
  /\ ExaminedCount({"row"}) <= Len(ScanFractions)
  /\ ExaminedCount({"forward", "reverse"}) <= 2 * Len(ScanFractions)
  /\ attempts <= ExaminedCount({"forward", "reverse"}) * Len(tolerances)
  /\ attempts <= 108

\* An iteration of the matching loop finds the stop glyph, or moves idx
\* forward: by the length of the glyph matched, or by one on a miss.
LoopAdvances ==
  pc = "match" /\ pc' = "match" =>
    \/ foundStopChar' /\ idx' = idx
    \/ /\ ~foundStopChar'
       /\ idx' > idx
       /\ \/ /\ consecutiveMisses' = consecutiveMisses + 1
             /\ idx' = idx + 1
          \/ /\ consecutiveMisses' = 0
             /\ Len(glyphs') = Len(glyphs) + 1
             /\ idx' = idx + TeleLensAt(glyphs'[Len(glyphs')])

\* The rows decodeTelepenFromCanvas has yet to read, each worth five steps.
RowsLeft == 5 * (Len(scanLines) - lineIdx)

\* A bound on the steps a call has left: the elements the matching loop has
\* yet to pass and the misses it may still count, or the rows the scan has
\* yet to read and the place within the row.
Rank ==
  CASE pc = "glyphs" -> 1
    [] pc = "elements" -> 3 * Len(elements) + 5
    [] pc = "match" ->
         IF foundStopChar THEN 1
         ELSE 3 * (Len(elements) - idx)
                + (MAX_CONSECUTIVE_MISSES - consecutiveMisses) + 2
    [] pc = "decoded" -> 0
    [] pc = "canvas" -> 5 * Len(ScanFractions) + 2
    [] pc = "line" -> RowsLeft + 1
    [] pc = "forward" -> RowsLeft
    [] pc = "reverse" -> RowsLeft - 1
    [] pc = "check" -> RowsLeft - 2
    [] pc = "returned" -> 0

\* C12: every iteration of the matching loop stops or strictly increases
\* idx, and idx never passes the end of the elements; a call of
\* decodeTelepenFromCanvas makes at most 9 x 2 x 6 = 108 attempts; every
\* step of a call lowers a natural number that is 0 only once the call has
\* returned, so no call runs for ever.
C12_BoundedWork ==
  /\ [](WorkBounded /\ Rank \in Nat /\ (Rank = 0 <=> Done))
  /\ [][LoopAdvances /\ Rank' < Rank]_vars

\* C12 witness: a call of decodeTelepenFromCanvas that made all 108 attempts
\* (nine rows, both directions, six tolerances) and returned null.
C12_Witness ==
  /\ pc = "returned"
  /\ attempts = 108
  /\ ExaminedCount({"forward", "reverse"}) = 18
  /\ returned = Null

(***************************************************************************)
(* The decoders Html5QrcodeShim asks.                                      *)
(***************************************************************************)

\* On a canvas of ShimCanvases the steps of decodeTelepenFromCanvas return
\* the text of TelepenText.
CanvasAgrees ==
  (pc = "returned" /\ input \in ShimCanvases) =>
    /\ (returned # Null) = (TelepenText[input] # Null)
    /\ returned # Null => returned = TelepenText[input]

IsFallThrough(e) == e.by = "decodeAsync" /\ e.decoder # "telepen-decoder"

\* The standard decoders the decodeAsync calls asked, in the order of the
\* calls.
FallThroughs == SelectSeq(trace, IsFallThrough)

\* The k-th fall-through asks the primary decoder for odd k and the
\* secondary for even k, and the alternation state says which was last;
\* with no secondary decoder all ask the primary.
Alternates ==
  /\ frames = TelepenText
  /\ secondaryDecoder # Undefined =>
       /\ \A k \in 1..Len(FallThroughs) :
            FallThroughs[k].decoder =
              IF k % 2 = 1 THEN "primary" ELSE "secondary"
       /\ wasPrimaryDecoderUsedInLastDecode = (Len(FallThroughs) % 2 = 1)
  /\ secondaryDecoder = Undefined =>
       \A k \in 1..Len(FallThroughs) : FallThroughs[k].decoder = "primary"

\* A step that is a decodeAsync call on the canvas input': it adds its
\* entry to the trace.  Where Telepen is requested and the text of the
\* canvas is non-empty, the entry is that text from the Telepen decoder, no
\* promise of a standard decoder is awaited and the alternation state
\* stays; else a standard decoder is asked and awaited.
TelepenFirst ==
  (calls' = calls + 1 /\ trace'[Len(trace')].by = "decodeAsync") =>
    LET entry == trace'[Len(trace')]
        text == TelepenText[input']
    IN  /\ trace' = Append(trace, entry)
        /\ IF telepenRequested /\ Truthy(text)
           THEN /\ entry = Asked("decodeAsync", "telepen-decoder", text)
                /\ pending' = pending
                /\ wasPrimaryDecoderUsedInLastDecode' =
                     wasPrimaryDecoderUsedInLastDecode
           ELSE /\ IsFallThrough(entry)
                /\ pending' = [pending EXCEPT !["decodeAsync"] = @ + 1]

\* C13: with a secondary decoder the decodeAsync calls that fall through
\* ask primary, secondary, primary, ... starting with the primary, and with
\* none they all ask the primary; a decodeAsync call whose Telepen text is
\* non-empty returns it, asks no standard decoder and leaves the alternation
\* state as it was.
C13_Alternation == []Alternates /\ [][TelepenFirst]_vars

\* C13: with a secondary decoder, a fall-through to the primary, a Telepen
\* text returned, and then a fall-through to the secondary.
C13_Witness ==
  /\ secondaryDecoder # Undefined
  /\ Len(trace) = 3
  /\ trace[1] = Asked("decodeAsync", "primary", <<>>)
  /\ trace[2].by = "decodeAsync"
  /\ trace[2].decoder = "telepen-decoder"
  /\ trace[2].telepenText = <<"3", "9">>
  /\ trace[3] = Asked("decodeAsync", "secondary", <<>>)

(***************************************************************************)
(* The width estimation on the rows that are tried.                        *)
(***************************************************************************)

\* Lines 373-383 and 388-389: the ratio of the cluster centres is below 2.5
\* or above 3.5, so that the percentile fallback is taken.
RatioOutOfRange(runList, first) ==
  LET lengths == SampleLengths(runList, first)
      centers == ClusterLoop(lengths,
                             [narrow |-> Fraction(SmallestOf(lengths), 1),
                              wide |-> Fraction(LargestOf(lengths), 1)], 0)
      ratioNum == centers.wide.num * centers.narrow.den
      ratioDen == centers.wide.den * centers.narrow.num
  IN  2 * ratioNum < 5 * ratioDen \/ 2 * ratioNum > 7 * ratioDen

\* The runs are bars and spaces in turn, each at least one pixel long.
RunsAlternate(runList) ==
  /\ \A k \in 1..Len(runList) : runList[k].length >= 1
  /\ \A k \in 1..(Len(runList) - 1) : runList[k].isBar # runList[k + 1].isBar

\* tryDecode on this direction of a row: the first bar is at index 0 or 1,
\* there are at least MIN_SAMPLES samples, the fallback where it is taken
\* reads an entry that exists, the width is a positive number, and the
\* tolerances are tried until a result is accepted or all have been tried.
WidthEstimated(runList) ==
  LET first == FirstBar(runList)
      lengths == SampleLengths(runList, first)
      narrowWidth == estimateNarrowWidth(runList, first)
      candidates == FloorMul(Len(lengths), 30)
      made == AttemptsMade(runList)
  IN  /\ first \in {0, 1}
      /\ Len(lengths) >= MIN_SAMPLES
      /\ RatioOutOfRange(runList, first) =>
           /\ candidates >= 1
           /\ candidates \div 2 < candidates
           /\ candidates <= Len(lengths)
      /\ narrowWidth.num > 0
      /\ narrowWidth.den > 0
      /\ made \in 1..Len(tolerances)
      /\ made = Len(tolerances) \/ Accepted(tryDecode(runList))
      /\ tryDecode(runList) = Null => made = Len(tolerances)

\* C14: a row that is tried has at least MIN_RUNS runs, bars and spaces in
\* turn; in both directions the first bar is at index 0 or 1, the width
\* estimation has at least MIN_SAMPLES samples and gives a positive width
\* from the clustering or from the fallback, and tryDecode tries the
\* tolerances until one result is accepted or all six have been tried.  A
\* row with fewer runs is not tried.
C14_WidthNeverFails ==
  /\ pc \in {"forward", "reverse"} =>
       /\ Len(runs) >= MIN_RUNS
       /\ RunsAlternate(runs)
       /\ WidthEstimated(runs)
       /\ WidthEstimated(Reverse(runs))
  /\ (pc = "check" /\ Len(runs) < MIN_RUNS) => result = Null

\* C14: a row of exactly MIN_RUNS runs that begins with a space, where the
\* fallback gave the width and the forward direction tried all six
\* tolerances.
C14_Witness ==
  /\ pc = "reverse"
  /\ Len(runs) = MIN_RUNS
  /\ FirstBar(runs) = 1
  /\ RatioOutOfRange(runs, 1)
  /\ attempts = Len(tolerances)
  /\ WidthEstimated(Reverse(runs))

====
